---- MODULE Spec2Model ----
(***************************************************************************)
(* Symbol table and scope resolution of the lacc C front end, modelled     *)
(* from src/src/parser/symtab.c.  Symbols are heap records addressed by a  *)
(* small integer (0 is NULL); a namespace is a scope array, its length,    *)
(* the deepest depth seen, and the master list of owned symbols.           *)
(***************************************************************************)
EXTENDS Integers, Sequences, FiniteSets, TLC

\* ------------------------------------------------------------------ bounds
MaxSyms == 2        \* symbol records the heap can hold at one time
MaxLen == 2         \* deepest scope stack the caller builds
MaxNest == 3        \* deepest scope stack of the nested-blocks unit
MaxCount == 2       \* cap of every static counter (they are unbounded ints)

\* --------------------------------------------------------------- constants
NULL == 0
Ids == 1..MaxSyms

ns_ident == "identifiers"
ns_label == "labels"
ns_tag == "tags"
Namespaces == {ns_ident, ns_label, ns_tag}

PREFIX_TEMPORARY == ".t"
PREFIX_UNNAMED == ".u"
PREFIX_CONSTANT == ".C"
PREFIX_STRING == ".LC"
PREFIX_LABEL == ".L"

SYM_DEFINITION == "definition"
SYM_TENTATIVE == "tentative"
SYM_DECLARATION == "declaration"
SYM_TYPEDEF == "typedef"
SYM_STRING_VALUE == "string"
SYM_CONSTANT == "number"
SYM_LABEL == "label"
SYM_TAG == "tag"

LINK_NONE == "none"
LINK_INTERN == "intern"
LINK_EXTERN == "extern"

SCOPE_CREATED == "created"
SCOPE_INITIALIZED == "initialized"
SCOPE_DIRTY == "dirty"

\* ------------------------------------------------------------------- types
\* A type is its kind, the type it is built on (element or return type), a
\* count: the array length (0: unknown) or the number of parameters, and
\* the type of the parameters.
T_INT == "int"
T_CHAR == "char"
T_VOID == "void"
T_ARRAY == "array"
T_FUNCTION == "function"

NoType == [t |-> "none", next |-> "none", n |-> 0, p |-> "none"]
basic_type__int == [t |-> T_INT, next |-> "none", n |-> 0, p |-> "none"]
basic_type__char == [t |-> T_CHAR, next |-> "none", n |-> 0, p |-> "none"]
basic_type__void == [t |-> T_VOID, next |-> "none", n |-> 0, p |-> "none"]
ArrayOf(elem, length) ==
    [t |-> T_ARRAY, next |-> elem, n |-> length, p |-> "none"]
FunctionOfMembers(ret, params, member) ==
    [t |-> T_FUNCTION, next |-> ret, n |-> params,
     p |-> IF params = 0 THEN "none" ELSE member]
FunctionOf(ret, params) == FunctionOfMembers(ret, params, T_INT)

type_of(type) == type.t
is_function(type) == type.t = T_FUNCTION
is_array(type) == type.t = T_ARRAY
type_next(type) == type.next
nmembers(type) == type.n
type_array_len(type) == type.n
type_equal(a, b) == a = b
size_of(type) ==
    IF type.t = T_ARRAY THEN type.n * (IF type.next = T_CHAR THEN 1 ELSE 4)
    ELSE IF type.t = T_CHAR THEN 1
    ELSE IF type.t = T_INT THEN 4
    ELSE 0
set_array_length(type, length) == [type EXCEPT !.n = length]

\* ----------------------------------------------------------------- records
\* calloc and memset leave a record with every field zero.
ZeroSym ==
    [name |-> "", n |-> 0, type |-> NoType, symtype |-> "", linkage |-> "",
     depth |-> 0, referenced |-> 0, stack_offset |-> 0]

Names == {"x", "f"}
LabelNames == {"l"}
AllNames == Names \cup LabelNames

\* The names the sym_create functions give, and the names .t<n> of the
\* temporaries of the older symbol table.
GeneratedNames ==
    {PREFIX_TEMPORARY, PREFIX_UNNAMED, PREFIX_CONSTANT, PREFIX_STRING,
     PREFIX_LABEL}
unique_identifier_name(n) == ".t" \o ToString(n)
TempNames == {unique_identifier_name(n) : n \in 0..(MaxCount - 1)}
Keys == AllNames \cup GeneratedNames \cup TempNames

EmptyTable == [nm \in Keys |-> NULL]
EmptyScope == [state |-> SCOPE_CREATED, table |-> EmptyTable]

\* What is recorded of a call: the function and its namespace, the rule of
\* sym_add that decided it, the pointer returned, the diagnostic printed,
\* whether calloc was called, and the records given to free.
NoCall ==
    [op |-> "none", ns |-> "", rule |-> "none", ret |-> NULL, err |-> "none",
     fresh |-> FALSE, freed |-> <<>>]

VARIABLES
    scope,            \* ns->scope: the frames allocated, per namespace
    scope_len,        \* array_len(&ns->scope): the frames in use
    max_scope_depth,  \* ns->max_scope_depth
    symbol,           \* ns->symbol: the master list
    mem,              \* the symbol records
    heap,             \* which records are allocated
    temporaries,      \* the recycling pool
    functions,        \* the cross-scope function table
    init,             \* sym_lookup_function's static flag
    counter,          \* the static counters n of the creating functions
    hash_dup,         \* what hash_insert does with a key already present
    unit,             \* the translation unit: what the parser declares in it
    ub,               \* an access with undefined behaviour has happened
    halted,           \* exit(1) was called
    last              \* the last call: its arguments, result and diagnostics

vars ==
    <<scope, scope_len, max_scope_depth, symbol, mem, heap, temporaries,
      functions, init, counter, hash_dup, unit, ub, halted, last>>

\* The translation units compiled: each is a family of declarations.
Units ==
    {"objects", "arrays", "lengths", "functions", "labels", "tags",
     "temporaries", "literals", "older", "owners", "nested"}

\* Only function declarations can insert a key that is already present.
DupChoices(u) ==
    IF u \in {"functions", "nested"} THEN {"keep", "replace"} ELSE {"keep"}

Creators == {"sym_add", "temporary", "unnamed", "label", "constant", "string"}

Init ==
    /\ scope = [ns \in Namespaces |-> <<>>]
    /\ scope_len = [ns \in Namespaces |-> 0]
    /\ max_scope_depth = [ns \in Namespaces |-> 0]
    /\ symbol = [ns \in Namespaces |-> <<>>]
    /\ mem = [i \in Ids |-> ZeroSym]
    /\ heap = [i \in Ids |-> "unallocated"]
    /\ temporaries = <<>>
    /\ functions = [state |-> "zero", table |-> EmptyTable]
    /\ init = 0
    /\ counter = [c \in Creators |-> 0]
    /\ unit \in Units
    /\ hash_dup \in DupChoices(unit)
    /\ ub = FALSE
    /\ halted = FALSE
    /\ last = NoCall

\* ------------------------------------------------------------ hash tables
\* hash_insert keys a symbol by its name; a key already present is either
\* kept or replaced, whichever the hash table does.
hash_insert(table, name, sym) ==
    IF table[name] # NULL /\ hash_dup = "keep" THEN table
    ELSE [table EXCEPT ![name] = sym]

hash_lookup(table, name) == table[name]

SetMax(S) == CHOOSE i \in S : \A j \in S : j <= i
SetMin(S) == CHOOSE i \in S : \A j \in S : i <= j

Range(seq) == {seq[i] : i \in 1..Len(seq)}

\* The program runs until it exits. The model follows it up to the first
\* access with undefined behaviour, whose outcomes end the behaviour.
Running == ~halted /\ ~ub

\* -------------------------------------------------------------- allocation
Live(i) == heap[i] = "live"

\* calloc hands out a record that is not allocated.
Calloc == SetMin({i \in Ids : ~Live(i)})

CanAlloc == temporaries # <<>> \/ \E i \in Ids : ~Live(i)

\* Faulty variant: a recycled record is handed out as it was discarded
alloc_sym_dirty(pool) ==
    IF Len(pool) > 0
    THEN [sym |-> pool[Len(pool)], pool |-> SubSeq(pool, 1, Len(pool) - 1),
          fresh |-> FALSE, rec |-> mem[pool[Len(pool)]]]
    ELSE [sym |-> Calloc, pool |-> pool, fresh |-> TRUE, rec |-> ZeroSym]

\* alloc_sym: the record (the last of the pool, or a new one), what is left
\* of the pool, whether calloc ran, and what the record holds: either way
\* every field is zero.
\* Faulty variant: the record taken from the pool stays in the pool.
alloc_sym_kept(pool) ==
    IF Len(pool) > 0
    THEN [sym |-> pool[Len(pool)], pool |-> pool,
          fresh |-> FALSE, rec |-> ZeroSym]
    ELSE [sym |-> Calloc, pool |-> pool, fresh |-> TRUE, rec |-> ZeroSym]

alloc_sym(pool) ==
    IF Len(pool) > 0
    THEN [sym |-> pool[Len(pool)], pool |-> SubSeq(pool, 1, Len(pool) - 1),
          fresh |-> FALSE, rec |-> ZeroSym]
    ELSE [sym |-> Calloc, pool |-> pool, fresh |-> TRUE, rec |-> ZeroSym]

\* ------------------------------------------------------------------ scopes
current_scope_depth(ns) == scope_len[ns] - 1

\* Faulty variant: the outermost frame that holds the name wins
sym_lookup_outermost(frames, length, name) ==
    LET hits == {i \in 1..length :
                    /\ frames[i].state = SCOPE_INITIALIZED
                    /\ hash_lookup(frames[i].table, name) # NULL}
    IN  IF hits = {} THEN NULL
        ELSE hash_lookup(frames[SetMin(hits)].table, name)

\* The frames sym_lookup probes, innermost first: the first hit wins.
sym_lookup_scan(frames, length, name) ==
    LET hits == {i \in 1..length :
                    /\ frames[i].state = SCOPE_INITIALIZED
                    /\ hash_lookup(frames[i].table, name) # NULL}
    IN  IF hits = {} THEN NULL
        ELSE hash_lookup(frames[SetMax(hits)].table, name)

\* Faulty variant: every namespace is looked up in the identifier scopes
Lookup_ident(ns, name) ==
    sym_lookup_scan(scope[ns_ident], scope_len[ns_ident], name)

Lookup(ns, name) == sym_lookup_scan(scope[ns], scope_len[ns], name)

\* The caller nests blocks up to MaxLen deep, and up to MaxNest deep in the
\* unit of nested block-scope function declarations.
ScopeBound == IF unit = "nested" THEN MaxNest ELSE MaxLen

\* Faulty variant: a frame is allocated for every scope entered
push_scope_alloc(ns) ==
    /\ Running
    /\ scope_len[ns] < ScopeBound
    /\ max_scope_depth' = [max_scope_depth EXCEPT ![ns] = @ + 1]
    /\ scope' = [scope EXCEPT ![ns] =
                    Append(SubSeq(@, 1, scope_len[ns]), EmptyScope)
                        \o SubSeq(@, scope_len[ns] + 1, Len(@))]
    /\ scope_len' = [scope_len EXCEPT ![ns] = @ + 1]
    /\ last' = [NoCall EXCEPT !.op = "push_scope", !.ns = ns]
    /\ UNCHANGED <<symbol, mem, heap, temporaries, functions, init, counter,
                   hash_dup, unit, ub, halted>>

push_scope(ns) ==
    /\ Running
    /\ scope_len[ns] < ScopeBound
    /\ IF scope_len[ns] < max_scope_depth[ns]
       THEN /\ scope_len' = [scope_len EXCEPT ![ns] = @ + 1]
            /\ scope' = [scope EXCEPT ![ns][scope_len[ns] + 1].state =
                            IF @ = SCOPE_INITIALIZED THEN SCOPE_DIRTY ELSE @]
            /\ UNCHANGED max_scope_depth
       ELSE /\ max_scope_depth' = [max_scope_depth EXCEPT ![ns] = @ + 1]
            /\ scope' = [scope EXCEPT ![ns] = Append(@, EmptyScope)]
            /\ scope_len' = [scope_len EXCEPT ![ns] = Len(scope[ns]) + 1]
    /\ last' = [NoCall EXCEPT !.op = "push_scope", !.ns = ns]
    /\ UNCHANGED <<symbol, mem, heap, temporaries, functions, init, counter,
                   hash_dup, unit, ub, halted>>

\* Faulty variant: the tentative check made in every namespace
undefined_label_any(ns, list) ==
    \E i \in 1..Len(list) : mem[list[i]].symtype = SYM_TENTATIVE

\* The diagnostic of the outermost pop: labels still tentative are undefined.
undefined_label(ns, list) ==
    \E i \in 1..Len(list) :
        ns = ns_label /\ mem[list[i]].symtype = SYM_TENTATIVE

\* Faulty variant: the master list is cleared without freeing its symbols
pop_scope_frees_pool(ns) ==
    IF ns = ns_ident THEN temporaries ELSE <<>>

\* The records the outermost pop gives to free, in order: the master list,
\* then, for the identifier namespace, the pool (sym_clear_buffers).
pop_scope_frees(ns) ==
    symbol[ns] \o (IF ns = ns_ident THEN temporaries ELSE <<>>)

\* free of a record that is not allocated, or twice in one call.
BadFree(frees) ==
    \/ \E i \in 1..Len(frees) : ~Live(frees[i])
    \/ \E i, j \in 1..Len(frees) : i # j /\ frees[i] = frees[j]

hash_destroy(tab) == [tab EXCEPT !.state = "destroyed"]

pop_scope(ns) ==
    /\ Running
    /\ scope_len[ns] > 0
    /\ IF scope_len[ns] = 1
       THEN LET frees == pop_scope_frees(ns)
            IN  /\ max_scope_depth' = [max_scope_depth EXCEPT ![ns] = 0]
                /\ scope' = [scope EXCEPT ![ns] = <<>>]
                /\ scope_len' = [scope_len EXCEPT ![ns] = 0]
                /\ heap' = [i \in Ids |->
                              IF i \in Range(frees) THEN "freed" ELSE heap[i]]
                /\ symbol' = [symbol EXCEPT ![ns] = <<>>]
                /\ temporaries' = IF ns = ns_ident THEN <<>> ELSE temporaries
                /\ functions' = IF ns = ns_ident THEN hash_destroy(functions)
                                ELSE functions
                /\ ub' = (ub \/ BadFree(frees))
                /\ last' = [NoCall EXCEPT
                              !.op = "pop_scope", !.ns = ns,
                              !.err = IF undefined_label(ns, symbol[ns])
                                      THEN "undefined_label" ELSE "none",
                              !.freed = frees]
       ELSE /\ scope_len' = [scope_len EXCEPT ![ns] = @ - 1]
            /\ last' = [NoCall EXCEPT !.op = "pop_scope", !.ns = ns]
            /\ UNCHANGED <<max_scope_depth, scope, heap, symbol, temporaries,
                           functions, ub>>
    /\ mem' = [i \in Ids |->
                 IF /\ scope_len[ns] = 1
                    /\ i \in Range(pop_scope_frees(ns))
                    /\ \A nm \in AllNames : functions.table[nm] # i
                 THEN ZeroSym ELSE mem[i]]
    /\ UNCHANGED <<init, counter, hash_dup, unit, halted>>

\* Faulty variant: a lookup that leaves the referenced flag alone.
sym_lookup_silent(ns, name) ==
    LET sym == Lookup(ns, name)
    IN  /\ Running
        /\ mem' = mem
        /\ last' = [NoCall EXCEPT !.op = "sym_lookup", !.ns = ns,
                                  !.ret = sym]
        /\ UNCHANGED <<scope, scope_len, max_scope_depth, symbol, heap,
                       temporaries, functions, init, counter, hash_dup, unit, ub,
                       halted>>

sym_lookup(ns, name) ==
    LET sym == Lookup(ns, name)
    IN  /\ Running
        /\ mem' = IF sym # NULL THEN [mem EXCEPT ![sym].referenced = 1]
                  ELSE mem
        /\ last' = [NoCall EXCEPT !.op = "sym_lookup", !.ns = ns,
                                  !.ret = sym]
        /\ UNCHANGED <<scope, scope_len, max_scope_depth, symbol, heap,
                       temporaries, functions, init, counter, hash_dup, unit, ub,
                       halted>>

\* ------------------------------------------------------------- type merge
\* Faulty variant: an array of unknown length is left as it is
apply_type_no_length(sym, type) ==
    IF /\ type_equal(sym.type, type)
       /\ ~(is_function(sym.type) /\ sym.symtype # SYM_DEFINITION)
    THEN [conflict |-> FALSE, type |-> sym.type]
    ELSE IF type_of(sym.type) = T_FUNCTION
    THEN IF /\ is_function(type)
            /\ type_equal(type_next(sym.type), type_next(type))
         THEN [conflict |-> nmembers(sym.type) # nmembers(type),
               type |-> IF nmembers(sym.type) = nmembers(type) THEN type
                        ELSE sym.type]
         ELSE [conflict |-> TRUE, type |-> sym.type]
    ELSE IF type_of(sym.type) = T_ARRAY
    THEN [conflict |-> ~(/\ is_array(type)
                         /\ type_equal(type_next(sym.type), type_next(type))),
          type |-> sym.type]
    ELSE [conflict |-> TRUE, type |-> sym.type]

\* Faulty variant: conflict starts out as 0: a scalar mismatch goes unreported
apply_type_no_conflict(sym, type) ==
    IF /\ type_equal(sym.type, type)
       /\ ~(is_function(sym.type) /\ sym.symtype # SYM_DEFINITION)
    THEN [conflict |-> FALSE, type |-> sym.type]
    ELSE IF type_of(sym.type) = T_FUNCTION
    THEN IF /\ is_function(type)
            /\ type_equal(type_next(sym.type), type_next(type))
         THEN [conflict |-> nmembers(sym.type) # nmembers(type),
               type |-> IF nmembers(sym.type) = nmembers(type) THEN type
                        ELSE sym.type]
         ELSE [conflict |-> FALSE, type |-> sym.type]
    ELSE IF type_of(sym.type) = T_ARRAY
    THEN IF /\ is_array(type)
            /\ type_equal(type_next(sym.type), type_next(type))
         THEN [conflict |-> FALSE,
               type |-> IF size_of(sym.type) = 0
                        THEN set_array_length(sym.type, type_array_len(type))
                        ELSE sym.type]
         ELSE [conflict |-> FALSE, type |-> sym.type]
    ELSE [conflict |-> FALSE, type |-> sym.type]

\* apply_type on a symbol record: whether the declaration conflicts, and the
\* type the symbol is left with.
apply_type(sym, type) ==
    IF /\ type_equal(sym.type, type)
       /\ ~(is_function(sym.type) /\ sym.symtype # SYM_DEFINITION)
    THEN [conflict |-> FALSE, type |-> sym.type]
    ELSE IF type_of(sym.type) = T_FUNCTION
    THEN IF /\ is_function(type)
            /\ type_equal(type_next(sym.type), type_next(type))
         THEN [conflict |-> nmembers(sym.type) # nmembers(type),
               type |-> IF nmembers(sym.type) = nmembers(type) THEN type
                        ELSE sym.type]
         ELSE [conflict |-> TRUE, type |-> sym.type]
    ELSE IF type_of(sym.type) = T_ARRAY
    THEN IF /\ is_array(type)
            /\ type_equal(type_next(sym.type), type_next(type))
         THEN [conflict |-> FALSE,
               type |-> IF size_of(sym.type) = 0
                        THEN set_array_length(sym.type, type_array_len(type))
                        ELSE sym.type]
         ELSE [conflict |-> TRUE, type |-> sym.type]
    ELSE [conflict |-> TRUE, type |-> sym.type]

\* Faulty variant: a dirty table is not cleared
sym_make_visible_dirty(frames, length, name, sym) ==
    LET table == IF frames[length].state = SCOPE_CREATED
                 THEN EmptyTable ELSE frames[length].table
    IN  [frames EXCEPT ![length] =
            [state |-> SCOPE_INITIALIZED,
             table |-> hash_insert(table, name, sym)]]

\* sym_make_visible: the frames after the symbol is registered in the
\* current one. A created frame gets its table, a dirty one is cleared.
sym_make_visible(frames, length, name, sym) ==
    LET table == IF frames[length].state = SCOPE_INITIALIZED
                 THEN frames[length].table ELSE EmptyTable
    IN  [frames EXCEPT ![length] =
            [state |-> SCOPE_INITIALIZED,
             table |-> hash_insert(table, name, sym)]]

\* ---------------------------------------------------------- function table
\* sym_lookup_function initializes the table on the first call only.
functions_initialized ==
    IF init = 0 THEN [state |-> "ready", table |-> EmptyTable] ELSE functions

\* hash_lookup in the function table. A table that was destroyed (and is not
\* initialized again) is read after free: the call crashes, misses, or
\* returns what the freed table held.
sym_lookup_function(name) ==
    IF functions_initialized.state = "ready"
    THEN {[crash |-> FALSE, ub |-> FALSE,
           sym |-> hash_lookup(functions_initialized.table, name)]}
    ELSE {[crash |-> TRUE, ub |-> TRUE, sym |-> NULL],
          [crash |-> FALSE, ub |-> TRUE, sym |-> NULL],
          [crash |-> FALSE, ub |-> TRUE,
           sym |-> hash_lookup(functions_initialized.table, name)]}

\* hash_insert in the function table. A table that is not initialized, or was
\* destroyed, is written outside any allocation: the call crashes, loses
\* the entry, or stores it.
functions_insert(tab, name, sym) ==
    IF tab.state = "ready"
    THEN {[crash |-> FALSE, ub |-> FALSE,
           tab |-> [tab EXCEPT !.table = hash_insert(@, name, sym)]]}
    ELSE {[crash |-> TRUE, ub |-> TRUE, tab |-> tab],
          [crash |-> FALSE, ub |-> TRUE, tab |-> tab],
          [crash |-> FALSE, ub |-> TRUE,
           tab |-> [tab EXCEPT !.table = hash_insert(@, name, sym)]]}

\* ----------------------------------------------------------------- sym_add
\* Faulty variant: the static counter is not incremented
static_n_fixed(linkage, depth, n) ==
    IF linkage = LINK_INTERN /\ depth # 0 THEN 1 ELSE 0

\* The disambiguation counter of a new symbol, from the static counter n.
static_n(linkage, depth, n) ==
    IF linkage = LINK_INTERN /\ depth # 0 THEN n + 1 ELSE 0

\* Faulty variant: a declaration after a definition is not compared with it
merge_rule_unchecked(sym, type, symtype, linkage) ==
    LET at == apply_type(sym, type)
        merged(kind) ==
            [err |-> IF at.conflict THEN "incompatible" ELSE "none",
             symtype |-> IF at.conflict THEN sym.symtype ELSE kind,
             type |-> at.type]
    IN  IF /\ sym.linkage = linkage
           /\ \/ sym.symtype = SYM_TENTATIVE /\ symtype = SYM_DEFINITION
              \/ sym.symtype = SYM_DEFINITION /\ symtype = SYM_TENTATIVE
        THEN merged(SYM_DEFINITION)
        ELSE IF /\ sym.linkage = linkage
                /\ sym.symtype = SYM_DECLARATION
                /\ symtype = SYM_TENTATIVE
        THEN merged(SYM_TENTATIVE)
        ELSE IF /\ sym.linkage = linkage
                /\ sym.symtype = SYM_DEFINITION
                /\ symtype = SYM_DECLARATION
        THEN [err |-> "none", symtype |-> sym.symtype, type |-> sym.type]
        ELSE IF sym.symtype # symtype \/ sym.linkage # linkage
        THEN [err |-> "mismatch", symtype |-> sym.symtype, type |-> sym.type]
        ELSE merged(sym.symtype)

\* The rules for a symbol found at file scope, in the order of the code:
\* the diagnostic (when fatal), and the kind and type the symbol gets.
\* Faulty variant: the merged symbol takes the kind of the redeclaration.
merge_rule_backward(sym, type, symtype, linkage) ==
    LET at == apply_type(sym, type)
        merged(kind) ==
            [err |-> IF at.conflict THEN "incompatible" ELSE "none",
             symtype |-> IF at.conflict THEN sym.symtype ELSE kind,
             type |-> at.type]
    IN  IF /\ sym.linkage = linkage
           /\ \/ sym.symtype = SYM_TENTATIVE /\ symtype = SYM_DEFINITION
              \/ sym.symtype = SYM_DEFINITION /\ symtype = SYM_TENTATIVE
        THEN merged(symtype)
        ELSE IF /\ sym.linkage = linkage
                /\ sym.symtype = SYM_DECLARATION
                /\ symtype = SYM_TENTATIVE
        THEN merged(SYM_TENTATIVE)
        ELSE IF /\ sym.linkage = linkage
                /\ sym.symtype = SYM_DEFINITION
                /\ symtype = SYM_DECLARATION
        THEN [err |-> IF ~type_equal(sym.type, type) THEN "conflicting"
                      ELSE "none",
              symtype |-> sym.symtype, type |-> sym.type]
        ELSE IF sym.symtype # symtype \/ sym.linkage # linkage
        THEN [err |-> "mismatch", symtype |-> sym.symtype, type |-> sym.type]
        ELSE merged(sym.symtype)

merge_rule(sym, type, symtype, linkage) ==
    LET at == apply_type(sym, type)
        merged(kind) ==
            [err |-> IF at.conflict THEN "incompatible" ELSE "none",
             symtype |-> IF at.conflict THEN sym.symtype ELSE kind,
             type |-> at.type]
    IN  IF /\ sym.linkage = linkage
           /\ \/ sym.symtype = SYM_TENTATIVE /\ symtype = SYM_DEFINITION
              \/ sym.symtype = SYM_DEFINITION /\ symtype = SYM_TENTATIVE
        THEN merged(SYM_DEFINITION)
        ELSE IF /\ sym.linkage = linkage
                /\ sym.symtype = SYM_DECLARATION
                /\ symtype = SYM_TENTATIVE
        THEN merged(SYM_TENTATIVE)
        ELSE IF /\ sym.linkage = linkage
                /\ sym.symtype = SYM_DEFINITION
                /\ symtype = SYM_DECLARATION
        THEN [err |-> IF ~type_equal(sym.type, type) THEN "conflicting"
                      ELSE "none",
              symtype |-> sym.symtype, type |-> sym.type]
        ELSE IF sym.symtype # symtype \/ sym.linkage # linkage
        THEN [err |-> "mismatch", symtype |-> sym.symtype, type |-> sym.type]
        ELSE merged(sym.symtype)

\* Which rule decides a declaration whose name sym_lookup found.
existing_rule(sym, symtype, linkage, depth) ==
    IF /\ linkage = LINK_EXTERN
       /\ symtype = SYM_DECLARATION
       /\ sym.symtype \in {SYM_TENTATIVE, SYM_DEFINITION}
    THEN "complete"
    ELSE IF sym.depth = depth /\ sym.depth = 0 THEN "merge"
    ELSE IF sym.depth = depth /\ sym.depth # 0 THEN "duplicate"
    ELSE "create"

\* sym_add as a whole: the states it can end in. A state is the part of the
\* program state sym_add can write: the frames and master list of ns, the
\* records, the heap, the pool, the function table and the counters.
sym_add_outcomes(ns, name, type, symtype, linkage) ==
    LET depth == current_scope_depth(ns)
        found == IF symtype # SYM_STRING_VALUE THEN Lookup(ns, name) ELSE NULL
        consult ==
            symtype # SYM_STRING_VALUE /\ found = NULL /\ is_function(type)
        base ==
            [frames |-> scope[ns], list |-> symbol[ns],
             mem |-> IF found # NULL THEN [mem EXCEPT ![found].referenced = 1]
                     ELSE mem,
             heap |-> heap, pool |-> temporaries,
             fn |-> IF consult THEN functions_initialized ELSE functions,
             init |-> IF consult THEN 1 ELSE init,
             n |-> counter["sym_add"], ub |-> ub, halted |-> FALSE,
             last |-> [NoCall EXCEPT !.op = "sym_add", !.ns = ns]]
        Fatal(b, err) == [b EXCEPT !.halted = TRUE, !.last.err = err]
        Crash(b) == [b EXCEPT !.halted = TRUE, !.ub = TRUE, !.last.err = "crash"]
        \* Create new symbol.
        Create(b) ==
            IF ~(b.pool # <<>> \/ \E i \in Ids : b.heap[i] # "live")
               \/ (static_n(linkage, depth, b.n) # 0 /\ b.n >= MaxCount)
            THEN {}
            ELSE
            LET a == alloc_sym(b.pool)
                rec == [a.rec EXCEPT !.depth = depth, !.name = name,
                           !.type = type, !.symtype = symtype,
                           !.linkage = linkage,
                           !.n = static_n(linkage, depth, b.n)]
                made == [b EXCEPT
                           !.pool = a.pool,
                           !.heap[a.sym] = "live",
                           !.mem[a.sym] = rec,
                           !.n = IF rec.n # 0 THEN rec.n ELSE b.n,
                           !.list = Append(b.list, a.sym),
                           !.frames = sym_make_visible(b.frames,
                                          scope_len[ns], name, a.sym),
                           !.last.rule = "create", !.last.ret = a.sym,
                           !.last.fresh = a.fresh]
            IN  IF is_function(type)
                THEN {IF io.crash THEN Crash(made)
                      ELSE [made EXCEPT !.fn = io.tab, !.ub = (@ \/ io.ub)] :
                      io \in functions_insert(made.fn, name, a.sym)}
                ELSE {made}
        \* All function declarations must agree, regardless of scope.
        Coerce(b, sym) ==
            LET at == apply_type(b.mem[sym], type)
            IN  IF at.conflict
                THEN Fatal([b EXCEPT !.last.rule = "coerce"], "incompatible")
                ELSE [b EXCEPT
                        !.mem[sym].type = at.type,
                        !.mem[sym].depth = IF depth < @ THEN depth ELSE @,
                        !.frames = sym_make_visible(b.frames, scope_len[ns],
                                       name, sym),
                        !.last.rule = "coerce", !.last.ret = sym]
        \* Try to complete existing tentative definition.
        Existing(b, sym) ==
            LET rule == existing_rule(b.mem[sym], symtype, linkage, depth)
                at == apply_type(b.mem[sym], type)
                mr == merge_rule(b.mem[sym], type, symtype, linkage)
                c == [b EXCEPT !.last.rule = rule]
            IN  IF rule = "complete"
                THEN {IF at.conflict THEN Fatal(c, "incompatible")
                      ELSE [c EXCEPT !.mem[sym].type = at.type,
                                     !.last.ret = sym]}
                ELSE IF rule = "merge"
                THEN {IF mr.err # "none" THEN Fatal(c, mr.err)
                      ELSE [c EXCEPT !.mem[sym].type = mr.type,
                                     !.mem[sym].symtype = mr.symtype,
                                     !.last.ret = sym]}
                ELSE IF rule = "duplicate"
                THEN {Fatal(c, "duplicate")}
                ELSE Create(b)
    IN  IF found # NULL THEN Existing(base, found)
        ELSE IF consult
        THEN UNION {IF o.crash THEN {Crash(base)}
                    ELSE IF o.sym # NULL
                    THEN {Coerce([base EXCEPT !.ub = (@ \/ o.ub)], o.sym)}
                    ELSE Create([base EXCEPT !.ub = (@ \/ o.ub)]) :
                    o \in sym_lookup_function(name)}
        ELSE Create(base)

sym_add(ns, name, type, symtype, linkage) ==
    /\ Running
    /\ scope_len[ns] > 0
    /\ symtype # SYM_LABEL
    /\ symtype = SYM_TAG => ns = ns_tag
    /\ (symtype # SYM_STRING_VALUE /\ is_function(type)
            /\ Lookup(ns, name) = NULL) => ns = ns_ident
    /\ \E st \in sym_add_outcomes(ns, name, type, symtype, linkage) :
        /\ scope' = [scope EXCEPT ![ns] = st.frames]
        /\ symbol' = [symbol EXCEPT ![ns] = st.list]
        /\ mem' = st.mem
        /\ heap' = st.heap
        /\ temporaries' = st.pool
        /\ functions' = st.fn
        /\ init' = st.init
        /\ counter' = [counter EXCEPT !["sym_add"] = st.n]
        /\ ub' = st.ub
        /\ halted' = st.halted
        /\ last' = st.last
    /\ UNCHANGED <<scope_len, max_scope_depth, hash_dup, unit>>

\* ------------------------------------------------------- generated symbols
\* A record that was allocated and belongs to no master list and not to the
\* pool: a temporary, unnamed object or label the caller still holds.
Held(i) ==
    /\ Live(i)
    /\ i \notin Range(temporaries)
    /\ \A ns \in Namespaces : i \notin Range(symbol[ns])

\* Faulty variant: a generated symbol is registered in the current scope
Generate_visible(op, creator, name, type, symtype, linkage, listed) ==
    LET a == alloc_sym(temporaries)
    IN  /\ Running
        /\ CanAlloc
        /\ counter[creator] < MaxCount
        /\ temporaries' = a.pool
        /\ heap' = [heap EXCEPT ![a.sym] = "live"]
        /\ mem' = [mem EXCEPT ![a.sym] =
                      [a.rec EXCEPT !.name = name, !.type = type,
                                    !.symtype = symtype, !.linkage = linkage,
                                    !.n = counter[creator] + 1]]
        /\ counter' = [counter EXCEPT ![creator] = @ + 1]
        /\ symbol' = IF listed
                     THEN [symbol EXCEPT ![ns_ident] = Append(@, a.sym)]
                     ELSE symbol
        /\ scope' = IF scope_len[ns_ident] > 0
                    THEN [scope EXCEPT ![ns_ident] =
                            sym_make_visible(@, scope_len[ns_ident], name,
                                             a.sym)]
                    ELSE scope
        /\ last' = [NoCall EXCEPT !.op = op, !.ret = a.sym,
                                  !.fresh = a.fresh]
        /\ UNCHANGED <<scope_len, max_scope_depth, functions, init,
                       hash_dup, unit, ub, halted>>

\* The part common to the sym_create functions: allocate, set the fields
\* the function sets (the others keep what alloc_sym left), count, and
\* append to the identifier master list where the function does.
Generate(op, creator, name, type, symtype, linkage, listed) ==
    LET a == alloc_sym(temporaries)
    IN  /\ Running
        /\ CanAlloc
        /\ counter[creator] < MaxCount
        /\ temporaries' = a.pool
        /\ heap' = [heap EXCEPT ![a.sym] = "live"]
        /\ mem' = [mem EXCEPT ![a.sym] =
                      [a.rec EXCEPT !.name = name, !.type = type,
                                    !.symtype = symtype, !.linkage = linkage,
                                    !.n = counter[creator] + 1]]
        /\ counter' = [counter EXCEPT ![creator] = @ + 1]
        /\ symbol' = IF listed
                     THEN [symbol EXCEPT ![ns_ident] = Append(@, a.sym)]
                     ELSE symbol
        /\ last' = [NoCall EXCEPT !.op = op, !.ret = a.sym,
                                  !.fresh = a.fresh]
        /\ UNCHANGED <<scope, scope_len, max_scope_depth, functions, init,
                       hash_dup, unit, ub, halted>>

sym_create_temporary(type) ==
    Generate("sym_create_temporary", "temporary", PREFIX_TEMPORARY, type,
             SYM_DEFINITION, LINK_NONE, FALSE)

sym_create_unnamed(type) ==
    /\ scope_len[ns_ident] > 0
    /\ Generate("sym_create_unnamed", "unnamed", PREFIX_UNNAMED, type,
                SYM_DEFINITION,
                IF current_scope_depth(ns_ident) = 0 THEN LINK_INTERN
                ELSE LINK_NONE,
                FALSE)

sym_create_label ==
    Generate("sym_create_label", "label", PREFIX_LABEL, basic_type__void,
             SYM_LABEL, LINK_INTERN, FALSE)

sym_create_constant(type) ==
    Generate("sym_create_constant", "constant", PREFIX_CONSTANT, type,
             SYM_CONSTANT, LINK_INTERN, TRUE)

sym_create_string(length) ==
    Generate("sym_create_string", "string", PREFIX_STRING,
             ArrayOf(T_CHAR, length + 1), SYM_STRING_VALUE, LINK_INTERN,
             TRUE)

\* register_in_scope of the older symbol table: the symbol is added to the
\* current scope, which push_scope left empty.
register_in_scope(frames, length, name, sym) ==
    LET table == IF frames[length].state = SCOPE_INITIALIZED
                 THEN frames[length].table ELSE EmptyTable
    IN  [frames EXCEPT ![length] =
            [state |-> SCOPE_INITIALIZED,
             table |-> hash_insert(table, name, sym)]]

\* sym_temp of the older symbol table: the symbol gets the name .t<n>, the
\* current depth and a place on the master list (create_symbol), and is
\* added to the current scope.
sym_temp(ns, type) ==
    LET sym == Calloc
        name == unique_identifier_name(counter["temporary"])
    IN  /\ Running
        /\ scope_len[ns] > 0
        /\ \E i \in Ids : ~Live(i)
        /\ counter["temporary"] < MaxCount
        /\ heap' = [heap EXCEPT ![sym] = "live"]
        /\ mem' = [mem EXCEPT ![sym] =
                      [ZeroSym EXCEPT !.name = name, !.type = type,
                                      !.depth = current_scope_depth(ns)]]
        /\ counter' = [counter EXCEPT !["temporary"] = @ + 1]
        /\ symbol' = [symbol EXCEPT ![ns] = Append(@, sym)]
        /\ scope' = [scope EXCEPT ![ns] =
                        register_in_scope(@, scope_len[ns], name, sym)]
        /\ last' = [NoCall EXCEPT !.op = "sym_temp", !.ns = ns, !.ret = sym,
                                  !.fresh = TRUE]
        /\ UNCHANGED <<scope_len, max_scope_depth, temporaries, functions,
                       init, hash_dup, unit, ub, halted>>

sym_discard(sym) ==
    /\ Running
    /\ Held(sym)
    /\ temporaries' = Append(temporaries, sym)
    /\ last' = [NoCall EXCEPT !.op = "sym_discard", !.ret = sym]
    /\ UNCHANGED <<scope, scope_len, max_scope_depth, symbol, mem, heap,
                   functions, init, counter, hash_dup, unit, ub, halted>>

\* The backend assigns a temporary its place in the stack frame.
assign_stack_offset(sym) ==
    /\ Running
    /\ Held(sym)
    /\ mem[sym].name = PREFIX_TEMPORARY
    /\ mem[sym].stack_offset = 0
    /\ mem' = [mem EXCEPT ![sym].stack_offset = 8]
    /\ last' = [NoCall EXCEPT !.op = "assign_stack_offset", !.ret = sym]
    /\ UNCHANGED <<scope, scope_len, max_scope_depth, symbol, heap,
                   temporaries, functions, init, counter, hash_dup, unit, ub,
                   halted>>

\* ------------------------------------------------------------ declarations
\* The declarations the parser hands to sym_add.
Decl(ns, name, type, symtype, linkage) ==
    [ns |-> ns, name |-> name, type |-> type, symtype |-> symtype,
     linkage |-> linkage]

ObjectDecls ==
    {Decl(ns_ident, "x", t, k, l) :
        t \in {basic_type__int, basic_type__char},
        k \in {SYM_TENTATIVE, SYM_DEFINITION, SYM_DECLARATION},
        l \in {LINK_EXTERN, LINK_INTERN}}
    \cup
    {Decl(ns_ident, "x", basic_type__int, k, LINK_NONE) :
        k \in {SYM_DEFINITION, SYM_TYPEDEF}}

ArrayDecls ==
    {Decl(ns_ident, "x", ArrayOf(T_INT, n), k, l) :
        n \in {0, 10},
        k \in {SYM_TENTATIVE, SYM_DEFINITION, SYM_DECLARATION},
        l \in {LINK_EXTERN, LINK_INTERN}}
    \cup
    {Decl(ns_ident, "x", ArrayOf(T_INT, n), k, LINK_NONE) :
        n \in {0, 10},
        k \in {SYM_DEFINITION, SYM_DECLARATION}}

\* Redeclarations of one array with two different known lengths.
LengthDecls ==
    {Decl(ns_ident, "x", ArrayOf(T_INT, n), k, LINK_EXTERN) :
        n \in {5, 10},
        k \in {SYM_TENTATIVE, SYM_DECLARATION}}
    \cup
    {Decl(ns_ident, "x", ArrayOf(T_INT, 5), SYM_DEFINITION, LINK_EXTERN),
     Decl(ns_ident, "x", ArrayOf(T_CHAR, 5), SYM_TENTATIVE, LINK_EXTERN)}

FunctionDecls ==
    {Decl(ns_ident, "f", FunctionOf(T_INT, n), k, LINK_EXTERN) :
        n \in {0, 2},
        k \in {SYM_DECLARATION, SYM_DEFINITION}}
    \cup
    {Decl(ns_ident, "f", basic_type__int, SYM_DECLARATION, LINK_EXTERN),
     Decl(ns_ident, "f", FunctionOfMembers(T_INT, 2, T_CHAR),
          SYM_DECLARATION, LINK_EXTERN)}

LabelDecls ==
    {Decl(ns_label, "l", basic_type__void, k, LINK_INTERN) :
        k \in {SYM_TENTATIVE, SYM_DEFINITION}}
    \cup
    {Decl(ns_ident, "x", basic_type__int, SYM_TENTATIVE, LINK_EXTERN)}

TagDecls ==
    {Decl(ns_tag, "x", basic_type__int, k, LINK_NONE) :
        k \in {SYM_TAG, SYM_TENTATIVE}}
    \cup
    {Decl(ns_ident, "x", basic_type__int, SYM_TENTATIVE, LINK_EXTERN)}

\* A function declared in a translation unit whose expressions use
\* temporaries.
OwnerDecls ==
    {Decl(ns_ident, "f", FunctionOf(T_INT, 0), SYM_DECLARATION, LINK_EXTERN)}

\* A function declared in blocks nested in one another.
NestedDecls ==
    {Decl(ns_ident, "f", FunctionOf(T_INT, 0), SYM_DECLARATION, LINK_EXTERN)}

LocalDecls ==
    {Decl(ns_ident, "x", basic_type__int, SYM_DEFINITION, l) :
        l \in {LINK_NONE, LINK_INTERN}}

UnitDecls ==
    CASE unit = "objects" -> ObjectDecls
      [] unit = "arrays" -> ArrayDecls
      [] unit = "lengths" -> LengthDecls
      [] unit = "functions" -> FunctionDecls
      [] unit = "labels" -> LabelDecls
      [] unit = "tags" -> TagDecls
      [] unit = "temporaries" -> LocalDecls
      [] unit = "literals" -> {}
      [] unit = "older" -> {}
      [] unit = "owners" -> OwnerDecls
      [] unit = "nested" -> NestedDecls

UnitNamespaces ==
    CASE unit = "labels" -> {ns_ident, ns_label}
      [] unit = "tags" -> {ns_ident, ns_tag}
      [] OTHER -> {ns_ident}

\* The sym_create functions the unit's expressions call.
UnitCreators ==
    CASE unit = "temporaries" -> {"temporary", "label"}
      [] unit = "literals" -> {"temporary", "unnamed", "constant", "string"}
      [] unit = "owners" -> {"temporary"}
      [] OTHER -> {}

LookupNames(ns) ==
    (IF ns = ns_label THEN LabelNames ELSE Names)
    \cup (IF UnitCreators # {} THEN GeneratedNames ELSE {})
    \cup (IF unit = "older" THEN TempNames ELSE {})

\* ----------------------------------------------------------- specification
Next ==
    \/ \E ns \in UnitNamespaces : push_scope(ns)
    \/ \E ns \in UnitNamespaces : pop_scope(ns)
    \/ \E ns \in UnitNamespaces : \E name \in LookupNames(ns) :
            sym_lookup(ns, name)
    \/ \E d \in UnitDecls :
            sym_add(d.ns, d.name, d.type, d.symtype, d.linkage)
    \/ "temporary" \in UnitCreators /\ sym_create_temporary(basic_type__int)
    \/ "unnamed" \in UnitCreators /\ sym_create_unnamed(basic_type__int)
    \/ "label" \in UnitCreators /\ sym_create_label
    \/ "constant" \in UnitCreators /\ sym_create_constant(basic_type__int)
    \/ "string" \in UnitCreators /\ sym_create_string(1)
    \/ UnitCreators # {} /\ \E i \in Ids : sym_discard(i)
    \/ unit = "temporaries" /\ \E i \in Ids : assign_stack_offset(i)
    \/ unit = "older" /\ sym_temp(ns_ident, basic_type__int)

Spec == Init /\ [][Next]_vars

\* ------------------------------------------------------------------ claims
Add(d) == sym_add(d.ns, d.name, d.type, d.symtype, d.linkage)

Listed(ns) == Range(symbol[ns])

SameDeclaration(a, b) ==
    a.symtype = b.symtype /\ a.type = b.type /\ a.linkage = b.linkage

\* sym_add, at depth 1, creates a symbol for a name that is visible from
\* depth 0: lookups now return the new symbol, and the outer one is as it was.
C1_DeclareInner ==
    \A d \in UnitDecls :
        LET outer == Lookup(d.ns, d.name)
        IN  (/\ scope_len[d.ns] = 2
             /\ outer # NULL
             /\ mem[outer].depth = 0
             /\ Add(d)
             /\ last'.rule = "create"
             /\ ~ub')
            => /\ last'.ret # outer
               /\ mem'[last'.ret].depth = 1
               /\ Lookup(d.ns, d.name)' = last'.ret
               /\ SameDeclaration(mem'[outer], mem[outer])

\* sym_lookup at depth 1 of a name registered at depth 1 returns that symbol,
\* whatever depth 0 holds.
C1_LookupInner ==
    \A ns \in UnitNamespaces : \A name \in LookupNames(ns) :
        (/\ scope_len[ns] = 2
         /\ scope[ns][2].state = SCOPE_INITIALIZED
         /\ scope[ns][2].table[name] # NULL
         /\ sym_lookup(ns, name))
        => /\ last'.ret = scope[ns][2].table[name]
           /\ mem[last'.ret].depth = 1
           /\ mem[last'.ret].name = name

\* pop_scope from depth 1 to depth 0: lookups return the symbol of depth 0
\* again, and it is as it was.
C1_PopToOuter ==
    \A ns \in UnitNamespaces : \A name \in LookupNames(ns) :
        LET outer == IF scope[ns][1].state = SCOPE_INITIALIZED
                     THEN scope[ns][1].table[name] ELSE NULL
        IN  (scope_len[ns] = 2 /\ pop_scope(ns))
            => /\ Lookup(ns, name)' = outer
               /\ outer # NULL =>
                    /\ mem[outer].depth = 0
                    /\ SameDeclaration(mem'[outer], mem[outer])

C2_Coercion ==
    [][\A d \in UnitDecls : \A s \in Ids :
        (/\ d.ns = ns_ident
         /\ is_function(d.type)
         /\ scope_len[ns_ident] = 1
         /\ s \in Listed(ns_ident)
         /\ mem[s].name = d.name
         /\ is_function(mem[s].type)
         /\ mem[s].depth >= 1
         /\ Add(d)
         /\ ~halted' /\ ~ub')
        => /\ last'.ret = s
           /\ symbol' = symbol
           /\ Lookup(ns_ident, d.name)' = s
           /\ mem'[s].depth = 0
           /\ \A i \in Listed(ns_ident) : mem'[i].depth <= mem[i].depth]_vars

Array10 == ArrayOf(T_INT, 10)
ArrayUnknown == ArrayOf(T_INT, 0)

\* C3. Tentative/definition merge at file scope: a tentative and a definition
\* of one name with the same linkage, one an array of 10 and the other an
\* array of unknown length, in either order, leave one symbol, the one first
\* created, of kind definition and length 10.
C3_TentativeDefinitionMerge ==
    [][\A d \in UnitDecls :
        LET s == Lookup(d.ns, d.name)
        IN  (/\ scope_len[d.ns] = 1
             /\ s # NULL
             /\ mem[s].linkage = d.linkage
             /\ {mem[s].symtype, d.symtype} = {SYM_TENTATIVE, SYM_DEFINITION}
             /\ {mem[s].type, d.type} = {Array10, ArrayUnknown}
             /\ Add(d))
            => /\ ~halted'
               /\ last'.ret = s
               /\ symbol' = symbol
               /\ mem'[s].symtype = SYM_DEFINITION
               /\ mem'[s].type = Array10
               /\ Cardinality({i \in Listed(d.ns)' :
                      mem'[i].name = d.name /\ mem'[i].depth = 0}) = 1]_vars

\* The merge rule returned the symbol as a definition of length 10.
C3_Witness ==
    /\ unit = "arrays"
    /\ last.op = "sym_add" /\ last.rule = "merge" /\ ~halted
    /\ mem[last.ret].symtype = SYM_DEFINITION
    /\ mem[last.ret].type = Array10
    /\ Len(symbol[ns_ident]) = 1

IsScalar(type) == type_of(type) \in {T_INT, T_CHAR}

\* A redeclaration, in the scope of the symbol, with the kind and linkage of
\* the symbol and another scalar type.
C4_Redeclares(d, s) ==
    /\ s # NULL
    /\ mem[s].depth = current_scope_depth(d.ns)
    /\ mem[s].symtype = d.symtype
    /\ mem[s].linkage = d.linkage
    /\ IsScalar(mem[s].type) /\ IsScalar(d.type)
    /\ mem[s].type # d.type

\* C4 as stated: at every depth such a redeclaration ends in the
\* incompatible-declaration error, returns nothing and keeps the type.
C4_AsStated ==
    [][\A d \in UnitDecls :
        LET s == Lookup(d.ns, d.name)
        IN  (C4_Redeclares(d, s) /\ Add(d))
            => /\ halted'
               /\ last'.err = "incompatible"
               /\ last'.ret = NULL
               /\ mem'[s].type = mem[s].type]_vars

\* C4. Incompatible redeclaration is fatal: the redeclaration ends in the
\* incompatible-declaration error at depth 0 and in the duplicate-definition
\* error at any other depth; it returns nothing and keeps the type.
C4_IncompatibleRedeclaration ==
    [][\A d \in UnitDecls :
        LET s == Lookup(d.ns, d.name)
        IN  (C4_Redeclares(d, s) /\ Add(d))
            => /\ halted'
               /\ last'.err = IF current_scope_depth(d.ns) = 0
                              THEN "incompatible" ELSE "duplicate"
               /\ last'.ret = NULL
               /\ symbol' = symbol
               /\ mem'[s].type = mem[s].type]_vars

\* sym_add ended in the incompatible-declaration error at file scope, on a
\* scalar symbol.
C4_Witness ==
    /\ unit = "objects"
    /\ halted /\ last.op = "sym_add" /\ last.err = "incompatible"
    /\ scope_len[ns_ident] = 1
    /\ IsScalar(mem[Lookup(ns_ident, "x")].type)

\* C5. Duplicate at a nested depth is fatal: at depth > 0 every sym_add of a
\* name whose visible symbol was recorded at that depth ends in the
\* duplicate-definition error, and creates and modifies nothing.
C5_NestedDuplicate ==
    [][\A d \in UnitDecls :
        LET s == Lookup(d.ns, d.name)
        IN  (/\ s # NULL
             /\ current_scope_depth(d.ns) > 0
             /\ mem[s].depth = current_scope_depth(d.ns)
             /\ Add(d))
            => /\ halted'
               /\ last'.err = "duplicate"
               /\ last'.ret = NULL
               /\ symbol' = symbol
               /\ \A i \in Ids : SameDeclaration(mem'[i], mem[i])]_vars

\* The symbols sym_add created: the generated ones have a reserved name.
Declared(ns) == {i \in Listed(ns) : mem[i].name \in AllNames}
AllDeclared == UNION {Declared(ns) : ns \in Namespaces}

C6_Counters ==
    \A i, j \in AllDeclared :
        /\ mem[i].linkage # LINK_INTERN => mem[i].n = 0
        /\ (mem[i].linkage = LINK_INTERN /\ mem[i].depth >= 1) => mem[i].n # 0
        /\ (i # j /\ mem[i].n # 0) => mem[i].n # mem[j].n

C6_Assigned ==
    /\ \A d \in UnitDecls :
        (last'.op = "sym_add" /\ last'.rule = "create" /\ Add(d))
        => (mem'[last'.ret].n # 0
                <=> (d.linkage = LINK_INTERN
                        /\ current_scope_depth(d.ns) >= 1))
    /\ \A ns \in Namespaces : \A i \in Listed(ns) :
        i \in Listed(ns)' => mem'[i].n = mem[i].n

\* C6. Scoped static disambiguation: the symbols sym_add created with
\* internal linkage at depth >= 1 have counters that are not zero and differ
\* from each other, the others have counter 0, and the counter of a symbol
\* stays what it was set to when the symbol was created.
C6_StaticDisambiguation == []C6_Counters /\ [][C6_Assigned]_vars

\* Two statics named x, of two scopes, with two counters.
C6_Witness ==
    \E i, j \in Declared(ns_ident) :
        /\ i # j
        /\ mem[i].name = "x" /\ mem[j].name = "x"
        /\ mem[i].linkage = LINK_INTERN /\ mem[j].linkage = LINK_INTERN
        /\ mem[i].n = 1 /\ mem[j].n = 2

Allocates ==
    \/ last'.op \in {"sym_create_temporary", "sym_create_unnamed",
                     "sym_create_label", "sym_create_constant",
                     "sym_create_string"}
    \/ last'.op = "sym_add" /\ last'.rule = "create"

\* C8. Temporary recycling: sym_discard puts the record at the end of the
\* pool; a creation with a pool that is not empty returns the last record of
\* the pool without calling calloc and takes it from the pool, and the fields
\* the creator does not set are zero.
C8_Recycling ==
    [][/\ \A t \in Ids :
            sym_discard(t) => temporaries' = Append(temporaries, t)
       /\ (Allocates /\ temporaries # <<>>)
            => /\ last'.ret = temporaries[Len(temporaries)]
               /\ ~last'.fresh
               /\ heap' = heap
               /\ temporaries' = SubSeq(temporaries, 1, Len(temporaries) - 1)
               /\ mem'[last'.ret].referenced = 0
               /\ mem'[last'.ret].stack_offset = 0
               /\ mem'[last'.ret].depth =
                    IF last'.op = "sym_add"
                    THEN current_scope_depth(ns_ident) ELSE 0
               /\ last'.op = "sym_add" =>
                    (mem'[last'.ret].n # 0
                        <=> /\ mem'[last'.ret].linkage = LINK_INTERN
                            /\ mem'[last'.ret].depth # 0)
       /\ (Allocates /\ temporaries = <<>>) => last'.fresh]_vars

\* sym_add made its symbol out of a discarded temporary that had a stack
\* offset, with another record still in the pool.
C8_Witness ==
    /\ last.op = "sym_add" /\ last.rule = "create" /\ ~last.fresh
    /\ Len(temporaries) = 1
    /\ mem[temporaries[1]].stack_offset # 0
    /\ mem[last.ret].n = 0

\* C9. Reuse after teardown: once the outermost scope of the identifier
\* namespace is popped, the namespace is as if never used: no scope, an empty
\* master list, and a function table that is empty and either initialized or
\* initialized by the next sym_lookup_function.
C9_ReuseAfterTeardown ==
    (last.op = "pop_scope" /\ last.ns = ns_ident /\ scope_len[ns_ident] = 0)
    => /\ scope[ns_ident] = <<>>
       /\ max_scope_depth[ns_ident] = 0
       /\ symbol[ns_ident] = <<>>
       /\ functions_initialized.state = "ready"
       /\ \A name \in AllNames : functions_initialized.table[name] = NULL

\* C10. Outermost pop tears the namespace down: with one scope active,
\* pop_scope leaves no scope, maximum depth 0 and an empty master list, and
\* frees each symbol of the list exactly once; with more scopes active it
\* only decrements the depth.
C10_Teardown ==
    [][\A ns \in Namespaces :
        /\ (scope_len[ns] = 1 /\ pop_scope(ns))
            => /\ scope_len'[ns] = 0
               /\ scope'[ns] = <<>>
               /\ max_scope_depth'[ns] = 0
               /\ symbol'[ns] = <<>>
               /\ \A i \in Listed(ns) :
                    /\ Live(i)
                    /\ heap'[i] = "freed"
                    /\ Cardinality({k \in 1..Len(last'.freed) :
                            last'.freed[k] = i}) = 1
               /\ ~ub'
        /\ (scope_len[ns] > 1 /\ pop_scope(ns))
            => /\ scope_len'[ns] = scope_len[ns] - 1
               /\ UNCHANGED <<symbol, mem, heap, max_scope_depth, scope,
                              temporaries, functions>>]_vars

\* The outermost pop freed a master list of two symbols.
C10_Witness ==
    /\ last.op = "pop_scope"
    /\ scope_len[last.ns] = 0
    /\ Len(last.freed) = 2
    /\ \A k \in 1..2 : heap[last.freed[k]] = "freed"
    /\ temporaries = <<>>

\* An incomplete type gaining what it lacked: an array of unknown length a
\* length, a function without parameter list its parameters.
Completes(old, new) ==
    \/ /\ is_array(old) /\ is_array(new)
       /\ type_next(old) = type_next(new)
       /\ type_array_len(old) = 0 /\ type_array_len(new) # 0
    \/ /\ is_function(old) /\ is_function(new)
       /\ type_next(old) = type_next(new)
       /\ nmembers(old) = 0 /\ nmembers(new) # 0

\* C11. Type monotonicity: a sym_add that returns an existing symbol leaves
\* its type as it was or completes it; a complete type is never replaced by
\* a structurally different one.
C11_TypeMonotonicity ==
    [][\A d \in UnitDecls : \A s \in Listed(d.ns) :
        (/\ last'.op = "sym_add" /\ last'.ret = s /\ ~halted'
         /\ Add(d))
        => \/ mem'[s].type = mem[s].type
           \/ Completes(mem[s].type, mem'[s].type)]_vars

\* C12. Forward-declaration completion is accepted: a function declared
\* without parameter list and declared again with the same return type and
\* two parameters, or an array declared with unknown length and declared
\* again with the same element type and length 10, is merged without error
\* and the symbol gets the incoming type.
C12_ForwardCompletion ==
    [][\A d \in UnitDecls :
        LET s == Lookup(d.ns, d.name)
        IN  (/\ s # NULL
             /\ scope_len[d.ns] = 1
             /\ mem[s].symtype = SYM_DECLARATION
             /\ mem[s].linkage = LINK_EXTERN
             /\ d.linkage = LINK_EXTERN
             /\ \/ /\ mem[s].type = FunctionOf(T_INT, 0)
                   /\ d.type = FunctionOf(T_INT, 2)
                   /\ d.symtype = SYM_DECLARATION
                \/ /\ mem[s].type = ArrayUnknown
                   /\ d.type = Array10
                   /\ d.symtype \in {SYM_DECLARATION, SYM_TENTATIVE}
             /\ Add(d))
            => /\ ~halted'
               /\ last'.ret = s
               /\ mem'[s].type = d.type]_vars

\* C14. Unnamed objects are owned by the identifier namespace: the symbol
\* sym_create_unnamed returns is on the master list of the identifier
\* namespace, no lookup returns it, its kind is definition and its linkage
\* internal at depth 0 and none otherwise.
C14_UnnamedOwned ==
    [][last'.op = "sym_create_unnamed"
        => /\ last'.ret \in Listed(ns_ident)'
           /\ \A ns \in Namespaces : \A name \in AllNames :
                Lookup(ns, name)' # last'.ret
           /\ mem'[last'.ret].symtype = SYM_DEFINITION
           /\ mem'[last'.ret].linkage =
                IF current_scope_depth(ns_ident) = 0 THEN LINK_INTERN
                ELSE LINK_NONE]_vars

ScopeCalls == {"push_scope", "pop_scope", "sym_add", "sym_lookup"}

\* A call on one namespace leaves the scopes, the depth, the master list and
\* the lookups of the others as they were.
C13_Frame ==
    \A ns \in Namespaces :
        (last'.op \in ScopeCalls /\ last'.ns = ns)
        => \A m \in Namespaces \ {ns} :
            /\ scope'[m] = scope[m]
            /\ scope_len'[m] = scope_len[m]
            /\ max_scope_depth'[m] = max_scope_depth[m]
            /\ symbol'[m] = symbol[m]
            /\ \A name \in AllNames : Lookup(m, name)' = Lookup(m, name)

\* A name visible in another namespace at the same depth is declared without
\* error, and each namespace keeps its own symbol.
C13_Coexist ==
    \A d \in UnitDecls : \A m \in Namespaces \ {d.ns} :
        (/\ scope_len[m] = scope_len[d.ns]
         /\ Lookup(m, d.name) # NULL
         /\ Lookup(d.ns, d.name) = NULL
         /\ ~is_function(d.type)
         /\ Add(d))
        => /\ ~halted'
           /\ last'.rule = "create"
           /\ Lookup(d.ns, d.name)' = last'.ret
           /\ last'.ret # Lookup(m, d.name)
           /\ Lookup(m, d.name)' = Lookup(m, d.name)

\* C13. Namespace independence: push_scope, pop_scope, sym_add and sym_lookup
\* on one namespace never change the scopes, depth, master list or lookups
\* of another; one name is declared in two namespaces at one depth without
\* error and each lookup returns the symbol of its namespace.
C13_NamespaceIndependence == [][C13_Frame /\ C13_Coexist]_vars

\* x is an identifier and a tag; the tag lookup returned the tag.
C13_Witness ==
    /\ last.op = "sym_lookup" /\ last.ns = ns_tag
    /\ last.ret # NULL
    /\ mem[last.ret].symtype = SYM_TAG /\ mem[last.ret].name = "x"
    /\ Lookup(ns_ident, "x") \notin {NULL, last.ret}
    /\ scope_len[ns_ident] = scope_len[ns_tag]

\* The symbols of an earlier scope at the current depth: the entries left in
\* the table of a frame that was entered again and holds no symbol yet, and
\* that no active scope holds.
Stale(ns) ==
    IF scope_len[ns] = 0 \/ scope[ns][scope_len[ns]].state # SCOPE_DIRTY
    THEN {}
    ELSE {scope[ns][scope_len[ns]].table[nm] : nm \in AllNames}
            \ ({NULL} \cup
               {scope[ns][k].table[nm] :
                    nm \in AllNames,
                    k \in {j \in 1..(scope_len[ns] - 1) :
                            scope[ns][j].state = SCOPE_INITIALIZED}})

\* push_scope changes no lookup; no lookup returns a stale symbol, before
\* and after the first symbol is registered in the scope.
C15_Invisible ==
    \A ns \in Namespaces :
        /\ (last'.op = "push_scope" /\ last'.ns = ns)
            => /\ \A name \in AllNames : Lookup(ns, name)' = Lookup(ns, name)
               /\ \A s \in Stale(ns)' : \A name \in AllNames :
                    Lookup(ns, name)' # s
        /\ \A s \in Stale(ns) : \A name \in AllNames :
            /\ Lookup(ns, name) # s
            /\ (last'.op \in {"sym_add", "sym_lookup"} /\ last'.ns = ns
                    /\ Lookup(ns, name)' = s)
                => (last'.rule = "coerce" /\ last'.ret = s)

\* C15 as stated: every sym_add of the name of a stale symbol with a type
\* that is no function creates a new symbol.
C15_AsStated ==
    [][/\ C15_Invisible
       /\ \A d \in UnitDecls : \A s \in Stale(d.ns) :
            (mem[s].name = d.name /\ ~is_function(d.type) /\ Add(d))
            => /\ ~halted'
               /\ last'.rule = "create"
               /\ last'.ret # s]_vars

\* C15. Sibling scopes are isolated by frame reuse: after a scope is popped
\* and its depth entered again, no lookup returns a symbol registered only
\* in the earlier scope, before and after the first symbol is registered;
\* a sym_add of such a name with a type that is no function never ends in
\* the duplicate-definition error and never returns the stale symbol: it
\* creates a new symbol, or, for an external declaration of a name visible
\* in an outer scope as tentative or definition, returns that outer symbol
\* or ends in the incompatible-declaration error of its type merge.
C15_SiblingIsolation ==
    [][/\ C15_Invisible
       /\ \A d \in UnitDecls : \A s \in Stale(d.ns) :
            (mem[s].name = d.name /\ ~is_function(d.type) /\ Add(d))
            => /\ last'.err # "duplicate"
               /\ last'.ret # s
               /\ last'.rule \in {"create", "complete"}
               /\ last'.rule = "create" => ~halted'
               /\ last'.rule = "complete"
                    => /\ d.symtype = SYM_DECLARATION
                       /\ d.linkage = LINK_EXTERN
                       /\ Lookup(d.ns, d.name) # NULL
                       /\ mem[Lookup(d.ns, d.name)].symtype
                            \in {SYM_TENTATIVE, SYM_DEFINITION}
                       /\ last'.ret \in {NULL, Lookup(d.ns, d.name)}
               /\ Lookup(d.ns, d.name) = NULL => last'.rule = "create"]_vars

\* A name of the earlier sibling scope was declared again in the scope
\* entered after it: two symbols of depth 1, the new one visible.
C15_Witness ==
    /\ last.op = "sym_add" /\ last.rule = "create" /\ ~halted
    /\ scope_len[ns_ident] = 2
    /\ Lookup(ns_ident, "x") = last.ret
    /\ \E s \in Listed(ns_ident) :
        /\ s # last.ret
        /\ mem[s].name = "x" /\ mem[s].depth = 1
        /\ mem[last.ret].depth = 1

\* C16. One symbol per function name: every symbol of function type on the
\* master list of the identifier namespace is the entry of the function
\* table for its name, so no two symbols of function type share a name.
C16_OneFunctionSymbol ==
    ~ub =>
        /\ \A s \in Listed(ns_ident) :
            is_function(mem[s].type)
                => /\ functions.state = "ready"
                   /\ functions.table[mem[s].name] = s
        /\ \A s, t \in Listed(ns_ident) :
            (/\ is_function(mem[s].type) /\ is_function(mem[t].type)
             /\ mem[s].name = mem[t].name)
                => s = t

\* C17. Precondition of the completion rule: sym_add returns a visible
\* tentative or definition symbol for an incoming declaration with external
\* linkage, kind unchanged and nothing created, only when that symbol is at
\* depth 0 and has external linkage.
C17_CompletionPrecondition ==
    [][\A d \in UnitDecls :
        LET s == Lookup(d.ns, d.name)
        IN  (/\ s # NULL
             /\ d.symtype = SYM_DECLARATION /\ d.linkage = LINK_EXTERN
             /\ mem[s].symtype \in {SYM_TENTATIVE, SYM_DEFINITION}
             /\ Add(d)
             /\ last'.ret = s
             /\ symbol' = symbol
             /\ mem'[s].symtype = mem[s].symtype)
            => (mem[s].depth = 0 /\ mem[s].linkage = LINK_EXTERN)]_vars

\* A declaration, at depth 0, of a name whose visible symbol is a definition
\* of depth 0 with the linkage of the declaration.
C18_Declares(d, s) ==
    /\ s # NULL
    /\ scope_len[d.ns] = 1
    /\ mem[s].depth = 0
    /\ mem[s].symtype = SYM_DEFINITION
    /\ d.symtype = SYM_DECLARATION
    /\ mem[s].linkage = d.linkage

C19_Frames ==
    \A ns \in Namespaces :
        /\ Len(scope[ns]) = max_scope_depth[ns]
        /\ scope_len[ns] <= max_scope_depth[ns]

\* The maximum depth is the largest number of active scopes since the last
\* teardown; push_scope allocates one frame when it goes deeper than that
\* and none otherwise, and no other call allocates a frame.
C19_HighWater ==
    \A ns \in Namespaces :
        /\ max_scope_depth'[ns] =
            IF scope_len'[ns] = 0 THEN 0
            ELSE IF scope_len'[ns] > max_scope_depth[ns] THEN scope_len'[ns]
            ELSE max_scope_depth[ns]
        /\ Len(scope'[ns]) =
            IF scope_len'[ns] = 0 THEN 0
            ELSE IF last'.op = "push_scope" /\ last'.ns = ns
                    /\ scope_len[ns] = max_scope_depth[ns]
            THEN Len(scope[ns]) + 1
            ELSE Len(scope[ns])

\* C19. Scope frames are bounded by nesting depth: the frames allocated
\* since the last teardown are as many as the recorded maximum depth, which
\* is the largest number of scopes active at once since then and at least
\* the number active now; push_scope allocates a frame only when it goes
\* deeper than ever before.
C19_FramesBounded == []C19_Frames /\ [][C19_HighWater]_vars

\* A depth seen before was entered again: two frames, both in use, the
\* second one reused.
C19_Witness ==
    /\ last.op = "push_scope" /\ last.ns = ns_ident
    /\ scope_len[ns_ident] = 2 /\ max_scope_depth[ns_ident] = 2
    /\ Len(scope[ns_ident]) = 2
    /\ scope[ns_ident][2].state = SCOPE_DIRTY

\* The names of the symbols sym_create_temporary, sym_create_constant,
\* sym_create_string and sym_create_label return.
C20_Names ==
    {PREFIX_TEMPORARY, PREFIX_CONSTANT, PREFIX_STRING, PREFIX_LABEL}

C20_Creators ==
    {"sym_create_temporary", "sym_create_constant", "sym_create_string",
     "sym_create_label"}

\* C20 as stated: no lookup, of any name, returns a symbol of one of the
\* four sym_create functions or of the older sym_temp.
C20_AsStated ==
    \A ns \in Namespaces : \A name \in Keys :
        \/ Lookup(ns, name) = NULL
        \/ mem[Lookup(ns, name)].name \notin C20_Names \cup TempNames

C20_Unseen ==
    \A ns \in Namespaces : \A name \in Keys :
        \/ Lookup(ns, name) = NULL
        \/ mem[Lookup(ns, name)].name \notin C20_Names

C20_Unregistered ==
    last'.op \in C20_Creators
        => /\ scope' = scope
           /\ mem'[last'.ret].name \in C20_Names
           /\ \A ns \in Namespaces : \A name \in Keys :
                Lookup(ns, name)' # last'.ret

\* C20. Generated symbols are never lookup-visible: sym_create_temporary,
\* sym_create_constant, sym_create_string and sym_create_label register
\* nothing in any scope, and no lookup in any namespace, of any name, the
\* reserved ones included, returns a symbol they made.
C20_GeneratedInvisible == []C20_Unseen /\ [][C20_Unregistered]_vars

\* A lookup found nothing while a string literal is on the master list and
\* a temporary is held by its creator.
C20_Witness ==
    /\ last.op = "sym_lookup" /\ last.ret = NULL
    /\ \E i \in Listed(ns_ident) : mem[i].name = PREFIX_STRING
    /\ \E j \in Ids : Held(j) /\ mem[j].name = PREFIX_TEMPORARY

\* ----------------------------------------------------------------- C21
\* A sym_lookup step returns what the scope stack holds for the name and
\* writes the referenced flag of that symbol and nothing else; a lookup
\* that finds nothing writes nothing.
C21_LookupStep ==
    last'.op = "sym_lookup"
        => \A name \in Keys :
            sym_lookup(last'.ns, name)
                => LET s == Lookup(last'.ns, name)
                   IN  /\ last'.ret = s
                       /\ UNCHANGED <<scope, scope_len, max_scope_depth,
                                      symbol, heap, temporaries, functions,
                                      init, counter>>
                       /\ s = NULL => mem' = mem
                       /\ s # NULL
                            => /\ mem'[s].referenced = 1
                               /\ mem' = [mem EXCEPT ![s].referenced = 1]

\* The referenced flag of a record rises only in a sym_lookup or sym_add
\* step whose lookup finds that record.
C21_Raised ==
    \A i \in Ids :
        (mem[i].referenced = 0 /\ mem'[i].referenced = 1)
            => /\ last'.op \in {"sym_lookup", "sym_add"}
               /\ \E name \in Keys : Lookup(last'.ns, name) = i

\* A record that is not allocated, and a symbol as its creator returns
\* it, has the referenced flag clear.
C21_Clear ==
    /\ \A i \in Ids : heap[i] = "unallocated" => mem[i].referenced = 0
    /\ (last.op \notin {"none", "sym_lookup", "sym_add", "sym_discard",
                        "push_scope", "pop_scope", "assign_stack_offset"}
            /\ last.ret # NULL)
        => mem[last.ret].referenced = 0
    /\ (last.op = "sym_add" /\ last.rule = "create" /\ last.ret # NULL)
        => mem[last.ret].referenced = 0

\* C21. Lookup's only side effect is the referenced flag: a sym_lookup that
\* finds symbol s leaves s.referenced true and changes nothing else (no
\* scope stack, scope table, master list, kind, type, linkage, depth or
\* other symbol's flag); a sym_lookup that finds nothing changes nothing;
\* and a symbol's referenced flag is false until a lookup, the one inside
\* sym_add included, has found it.
C21_LookupReferenced ==
    []C21_Clear /\ [][C21_LookupStep /\ C21_Raised]_vars

\* A lookup has found and flagged one symbol while a symbol of another
\* namespace, never looked up, still has its flag clear.
C21_Witness ==
    /\ last.op = "sym_lookup" /\ last.ret # NULL
    /\ mem[last.ret].referenced = 1
    /\ \E ns \in Namespaces : \E j \in Listed(ns) :
            j # last.ret /\ mem[j].referenced = 0

\* ----------------------------------------------------------------- C22
\* C22. Mismatched known array lengths are rejected: when the existing
\* symbol is an array of known length n and a redeclaration that reaches
\* the type merge carries an array of the same element type and another
\* known length m, sym_add aborts with the incompatible-declaration error.
C22_MismatchedLengths ==
    [][\A d \in UnitDecls :
        LET s == Lookup(d.ns, d.name)
        IN  (/\ last'.op = "sym_add"
             /\ last'.rule \in {"complete", "merge"}
             /\ last'.err \in {"none", "incompatible"}
             /\ is_array(d.type) /\ type_array_len(d.type) # 0
             /\ s # NULL
             /\ is_array(mem[s].type)
             /\ type_equal(type_next(mem[s].type), type_next(d.type))
             /\ type_array_len(mem[s].type) # 0
             /\ type_array_len(mem[s].type) # type_array_len(d.type)
             /\ Add(d))
                => halted' /\ last'.err = "incompatible"]_vars

\* ----------------------------------------------------------------- C23
\* C23. sym_add then sym_lookup round trip: after every sym_add that
\* returns, with a kind other than string literal, a lookup of the same
\* name in the same namespace and at the same depth finds exactly the
\* symbol sym_add returned, whichever rule produced it; and the master
\* list of the namespace grew by exactly one entry, the returned symbol,
\* if a new symbol was created, and did not change otherwise.
C23_RoundTrip ==
    [][\A d \in UnitDecls :
        (/\ last'.op = "sym_add"
         /\ ~halted'
         /\ d.symtype # SYM_STRING_VALUE
         /\ Add(d))
            => /\ last'.ret # NULL
               /\ last'.rule \in {"create", "coerce", "complete", "merge"}
               /\ Lookup(d.ns, d.name)' = last'.ret
               /\ scope_len' = scope_len
               /\ last'.rule = "create"
                    => symbol'[d.ns] = Append(symbol[d.ns], last'.ret)
               /\ last'.rule # "create" => symbol'[d.ns] = symbol[d.ns]
               /\ \A ns \in Namespaces \ {d.ns} : symbol'[ns] = symbol[ns]]_vars

\* ----------------------------------------------------------------- C24
\* The kind of a symbol that is and stays on a master list changes only in
\* a sym_add step that returns that symbol, and only from declaration to
\* tentative or from tentative to definition.
C24_Forward ==
    \A ns \in Namespaces : \A i \in Listed(ns) :
        (i \in Range(symbol'[ns]) /\ mem'[i].symtype # mem[i].symtype)
            => /\ last'.op = "sym_add" /\ last'.rule = "merge"
               /\ last'.ret = i
               /\ \/ /\ mem[i].symtype = SYM_DECLARATION
                     /\ mem'[i].symtype = SYM_TENTATIVE
                  \/ /\ mem[i].symtype = SYM_TENTATIVE
                     /\ mem'[i].symtype = SYM_DEFINITION

\* A definition, a typedef and a tag keep their kind for as long as the
\* record is allocated, whatever the step.
C24_Final ==
    \A ns \in Namespaces : \A i \in Listed(ns) :
        (mem[i].symtype \in {SYM_DEFINITION, SYM_TYPEDEF, SYM_TAG}
         /\ mem'[i].symtype # mem[i].symtype)
            => /\ last'.op = "pop_scope" /\ scope_len'[last'.ns] = 0
               /\ ~Live(i)'

\* C24. Symbol kind only moves forward: the only kind changes sym_add makes
\* to an existing symbol are declaration -> tentative and tentative ->
\* definition; once a symbol is a definition no later sym_add, sym_lookup,
\* push_scope or pop_scope short of teardown changes its kind, and the
\* kinds typedef and tag never change.
C24_KindForward == [][C24_Forward /\ C24_Final]_vars

\* A redeclaration was merged into an existing file-scope symbol of
\* internal linkage, whose kind after the merge is tentative: it was a
\* declaration or a tentative definition before.
C24_Witness ==
    /\ last.op = "sym_add" /\ last.rule = "merge" /\ ~halted
    /\ mem[last.ret].symtype = SYM_TENTATIVE
    /\ mem[last.ret].linkage = LINK_INTERN
    /\ unit = "objects"

\* ----------------------------------------------------------------- C25
\* The records a namespace owns: those of its master list, of the lookup
\* tables of its scope frames and, for identifiers, of the function table
\* while it is allocated.
C25_Tabled(ns) ==
    {scope[ns][k].table[nm] : k \in 1..Len(scope[ns]), nm \in Keys} \ {NULL}

C25_Functions ==
    IF functions.state = "ready"
    THEN {functions.table[nm] : nm \in Keys} \ {NULL}
    ELSE {}

C25_Pool == Range(temporaries)

C25_Disjoint ==
    /\ \A ns \in Namespaces :
            C25_Pool \cap (Listed(ns) \cup C25_Tabled(ns)) = {}
    /\ C25_Pool \cap C25_Functions = {}
    /\ Cardinality(C25_Pool) = Len(temporaries)
    /\ \A ns \in Namespaces : Cardinality(Listed(ns)) = Len(symbol[ns])
    /\ \A ns, ms \in Namespaces :
            ns # ms => Listed(ns) \cap Listed(ms) = {}

\* Teardown of the identifier namespace frees each record of the master
\* list and of the pool once, and each of them was allocated.
C25_FreedOnce ==
    (last'.op = "pop_scope" /\ scope_len[ns_ident] = 1
        /\ pop_scope(ns_ident))
        => /\ last'.freed = symbol[ns_ident] \o temporaries
           /\ \A k \in 1..Len(last'.freed) : Live(last'.freed[k])
           /\ \A k, l \in 1..Len(last'.freed) :
                k # l => last'.freed[k] # last'.freed[l]

\* C25. Exclusive ownership: with sym_discard applied only to symbols
\* their creator still holds, once per creation, no record is at the same
\* time in the recycling pool and in a master list, a scope lookup table
\* or the function table; no record is twice in the pool or in more than
\* one master list; and teardown of the identifier namespace frees no
\* record twice.
C25_ExclusiveOwnership == []C25_Disjoint /\ [][C25_FreedOnce]_vars

\* Teardown of the identifier namespace has freed a declared function,
\* which the function table held, and after it a discarded temporary of
\* the pool.
C25_Witness ==
    /\ unit = "owners"
    /\ last.op = "pop_scope" /\ last.ns = ns_ident
    /\ Len(last.freed) = 2
    /\ last.freed[1] # last.freed[2]
    /\ functions.table["f"] = last.freed[1]
    /\ temporaries = <<>>
    /\ ~ub

====
